---- MODULE Spec2Model ----
(***************************************************************************)
(* pg_rage_terminator: a PostgreSQL background worker that, every          *)
(* <interval> seconds, runs one query over pg_stat_activity terminating    *)
(* each client backend with a chance of <chance> percent.                  *)
(*                                                                         *)
(* The model follows pg_rage_terminator_main statement by statement: the   *)
(* variable pc is the position of the worker in the main loop, and the two *)
(* signal handlers interleave with it between any two positions.  What the *)
(* server decides is an input of the step that reads it: the wake events   *)
(* of WaitLatch (timeout, death of the postmaster), the values the         *)
(* configuration file carries at a reload, and the content of              *)
(* pg_stat_activity, the random draws and the outcome of each              *)
(* pg_terminate_backend at a scan.                                         *)
(***************************************************************************)
EXTENDS Integers, Sequences, FiniteSets, TLC

\* ------------------------------------------------------------------ bounds
\* number of backend slots of the server that clients may occupy
MaxConn == 2
\* resolution of random(): random() * 100 takes the values q / DrawRes
DrawRes == 2
\* SIGHUP deliveries counted before the history counters saturate
MaxCount == 2

\* ----------------------------------------------------------- GUC settings
\* DefineCustomIntVariable("pg_rage_terminator.chance", ..., 10, 0, 100, ...)
GucChance == [boot |-> 10, min |-> 0, max |-> 100]
\* DefineCustomIntVariable("pg_rage_terminator.interval", ..., 5, -1, 3600, ...)
GucInterval == [boot |-> 5, min |-> -1, max |-> 3600]
\* wait used while the lookup is disabled (sleep_interval = 10)
FallbackSleep == 10

\* values a configuration file may carry for each setting
ChanceInputs == {-1, 0, 10, 100, 101}
IntervalInputs == {-2, -1, 0, 5, 3601}

\* the GUC machinery assigns a value inside [min, max] and otherwise keeps
\* the current one
GucAssign(def, cur, v) == IF v >= def.min /\ v <= def.max THEN v ELSE cur

\* ------------------------------------------------------------- the query
Pids == 1..MaxConn

\* random() * 100 as the rationals q / DrawRes in [0, 100)
Draws == 0..(100 * DrawRes - 1)

\* the cast float8 -> int4 rounds to the nearest integer, ties to even
Float8ToInt4(q) ==
    LET f == q \div DrawRes
        r2 == 2 * (q % DrawRes)
    IN  IF r2 < DrawRes THEN f
        ELSE IF r2 > DrawRes THEN f + 1
        ELSE IF f % 2 = 0 THEN f ELSE f + 1

\* the comparison of the WHERE clause written with <= instead of <
WhereRandomLe(q, c) == Float8ToInt4(q) <= c

\* "AND ((random() * 100)::int < %d)" with %d the chance of the template
WhereRandom(q, c) == Float8ToInt4(q) < c

\* pg_stat_activity at the time of a scan: each backend slot is free, holds
\* a backend with a client port, or one without (client_port IS NULL)
Activity == [Pids -> {"none", "client", "local"}]

\* "WHERE client_port IS NOT NULL" over the rows of pg_stat_activity
Candidates(cs) == {p \in Pids : cs[p] = "client"}

\* the row sets one execution of the query may return
Selections(cs, c) ==
    {S \in SUBSET Candidates(cs) :
        \A p \in Candidates(cs) : \E q \in Draws : (p \in S) <=> WhereRandom(q, c)}

\* rows of the result, one per selected pid, in pid order
RECURSIVE Rows(_, _)
Rows(S, st) ==
    IF S = {} THEN <<>>
    ELSE LET p == CHOOSE x \in S : \A y \in S : x <= y
         IN  <<[pid |-> p, status |-> st[p]]>> \o Rows(S \ {p}, st)

\* ---------------------------------------------------------------- the log
Line(level, msg, arg) == [level |-> level, msg |-> msg, arg |-> arg]
KillQueryLine(c) == Line("DEBUG1", "Kill query is", c)
SighupLine == Line("LOG", "bgworker pg_rage_terminator signal: processed SIGHUP", 0)
SigtermLine == Line("LOG", "bgworker pg_rage_terminator signal: processed SIGTERM", 0)
NothingLine == Line("LOG", "Nothing to do, sleep zzzzZZZZ", 0)
RageLine(p) == Line("LOG", "Rage terminated connection with PID", p)
FatalLine == Line("FATAL", "Error when trying to rage", 0)

Count(s, l) == Cardinality({i \in 1..Len(s) : s[i] = l})
RageLines(s) == {i \in 1..Len(s) : s[i].msg = RageLine(0).msg}
RagePids(s) == {s[i].arg : i \in RageLines(s)}
KillQueryLines(s) == {i \in 1..Len(s) : s[i].msg = KillQueryLine(0).msg}

RECURSIVE LogRows(_)
LogRows(t) == IF t = <<>> THEN <<>> ELSE <<RageLine(Head(t).pid)>> \o LogRows(Tail(t))

Sat(n) == IF n < MaxCount THEN n + 1 ELSE MaxCount

\* ------------------------------------------------------------------ state
VARIABLES
    pc,             \* position of the worker in pg_rage_terminator_main
    exit_status,    \* argument of proc_exit, -1 while running
    got_sigterm,    \* static volatile sig_atomic_t got_sigterm
    got_sighup,     \* static volatile sig_atomic_t got_sighup
    latch,          \* MyProc->procLatch is set
    chance,         \* static int chance
    interval,       \* static int interval
    buf,            \* StringInfoData buf: the chance of each statement in it
    rc,             \* int rc: the wake events of the last WaitLatch
    sleep_interval, \* int sleep_interval
    old_chance,     \* int old_chance
    ret,            \* int ret: result code of SPI_execute
    tuptable,       \* SPI_tuptable, SPI_processed = Len(tuptable)
    xact_open,      \* transactions of the worker in progress
    xact_end,       \* how the transaction of this iteration ended
    log,            \* server log lines written since the loop last tested its condition
    scanned,        \* pids with a client port seen by the SPI_execute of this iteration
    terminated,     \* pids pg_terminate_backend was called on in this iteration
    term_in_wait,   \* SIGTERM was delivered while the worker was in WaitLatch
    hup_delivered,  \* SIGHUPs delivered since ProcessConfigFile last started
    hup_batch,      \* hup_delivered when the ProcessConfigFile of this iteration started
    refreshes,      \* ProcessConfigFile calls of this iteration
    wake_both,      \* the latest WaitLatch returned, without the death of the
                    \* postmaster, while got_sighup and got_sigterm were both set
    term_scans      \* scan passes started while got_sigterm was set

config == <<chance, interval>>
flags == <<got_sigterm, got_sighup>>
locals == <<rc, sleep_interval, old_chance, ret>>
spi == <<tuptable, xact_open, xact_end, scanned, terminated>>
hist == <<term_in_wait, hup_delivered, hup_batch, refreshes>>
hist2 == <<wake_both, term_scans>>
vars == <<pc, exit_status, flags, latch, config, buf, locals, spi, log, hist, hist2>>

WakeEvents == {"WL_LATCH_SET", "WL_TIMEOUT", "WL_POSTMASTER_DEATH"}
ScanPcs == {"execute", "check_ret", "commit"}

Init ==
    /\ pc = "start"
    /\ exit_status = -1
    /\ got_sigterm = FALSE
    /\ got_sighup = FALSE
    /\ latch = FALSE
    /\ \E c \in ChanceInputs : chance = GucAssign(GucChance, GucChance.boot, c)
    /\ \E i \in IntervalInputs : interval = GucAssign(GucInterval, GucInterval.boot, i)
    /\ buf = <<>>
    /\ rc = {}
    /\ sleep_interval = 0
    /\ old_chance = 0
    /\ ret = "none"
    /\ tuptable = <<>>
    /\ xact_open = 0
    /\ xact_end = "none"
    /\ log = <<>>
    /\ scanned = {}
    /\ terminated = {}
    /\ term_in_wait = FALSE
    /\ hup_delivered = 0
    /\ hup_batch = 0
    /\ refreshes = 0
    /\ wake_both = FALSE
    /\ term_scans = 0

\* --------------------------------------------------------- signal handlers
\* pg_rage_terminator_sigterm
Sigterm ==
    /\ pc # "exited"
    /\ got_sigterm' = TRUE
    /\ latch' = TRUE
    /\ term_in_wait' = (term_in_wait \/ pc = "wait")
    /\ UNCHANGED <<pc, exit_status, got_sighup, config, buf, locals, spi, log,
                   hup_delivered, hup_batch, refreshes>>
    /\ UNCHANGED hist2

\* the SIGHUP handler that sets both flags
SighupSetsBoth ==
    /\ pc # "exited"
    /\ got_sighup' = TRUE
    /\ got_sigterm' = TRUE
    /\ latch' = TRUE
    /\ hup_delivered' = Sat(hup_delivered)
    /\ UNCHANGED <<pc, exit_status, config, buf, locals, spi, log,
                   term_in_wait, hup_batch, refreshes, wake_both, term_scans>>

\* pg_rage_terminator_sighup
Sighup ==
    /\ pc # "exited"
    /\ got_sighup' = TRUE
    /\ latch' = TRUE
    /\ hup_delivered' = Sat(hup_delivered)
    /\ UNCHANGED <<pc, exit_status, got_sigterm, config, buf, locals, spi, log,
                   term_in_wait, hup_batch, refreshes>>
    /\ UNCHANGED hist2

\* ------------------------------------------------------------- the worker
\* initStringInfo
InitStringInfo == <<>>

\* pg_rage_terminator_build_query: appends the statement carrying the
\* current chance to the buffer
BuildQuery(b, c) == b \o <<c>>

\* pg_rage_terminator_main up to the loop: the handlers are installed and
\* signals unblocked, then the query is built
MainStart ==
    /\ pc = "start"
    /\ buf' = BuildQuery(InitStringInfo, chance)
    /\ log' = log \o <<KillQueryLine(chance)>>
    /\ pc' = "loop"
    /\ UNCHANGED <<exit_status, flags, latch, config, locals, spi, hist>>
    /\ UNCHANGED hist2

\* while (!got_sigterm), then the choice of sleep_interval; falling out of
\* the loop reaches the proc_exit(0) that follows it.  The variables of the
\* loop body start afresh in every iteration, and so do the records kept of
\* one iteration (log, xact_end, scanned, terminated)
LoopCond ==
    /\ pc = "loop"
    /\ IF got_sigterm
          THEN /\ pc' = "exited"
               /\ exit_status' = 0
               /\ UNCHANGED <<rc, sleep_interval, ret, tuptable, xact_end, scanned,
                              terminated, log>>
          ELSE /\ pc' = "wait"
               /\ rc' = {}
               /\ sleep_interval' = (IF 0 = interval THEN FallbackSleep ELSE interval)
               /\ ret' = "none"
               /\ tuptable' = <<>>
               /\ xact_end' = "none"
               /\ scanned' = {}
               /\ terminated' = {}
               /\ log' = <<>>
               /\ UNCHANGED exit_status
    /\ UNCHANGED <<flags, latch, config, buf, old_chance, xact_open, hist>>
    /\ UNCHANGED hist2

\* WaitLatch(WL_LATCH_SET | WL_TIMEOUT | WL_POSTMASTER_DEATH, sleep_interval * 1000L)
\* returns the events that occurred: the latch only if it is set, the
\* timeout and the death of the postmaster whenever they happen
WaitLatch ==
    /\ pc = "wait"
    /\ \E r \in (SUBSET WakeEvents) \ {{}} :
          /\ "WL_LATCH_SET" \in r => latch
          /\ rc' = r
          /\ wake_both' = (got_sigterm /\ got_sighup /\ "WL_POSTMASTER_DEATH" \notin r)
    /\ pc' = "reset"
    /\ UNCHANGED <<exit_status, flags, latch, config, buf, sleep_interval, old_chance, ret,
                   spi, log, hist>>
    /\ UNCHANGED term_scans

\* ResetLatch(&MyProc->procLatch)
ResetLatch ==
    /\ pc = "reset"
    /\ latch' = FALSE
    /\ pc' = "check_death"
    /\ UNCHANGED <<exit_status, flags, config, buf, locals, spi, log, hist>>
    /\ UNCHANGED hist2

\* the loop without its emergency bailout
LoopCheckDeathIgnored ==
    /\ pc = "check_death"
    /\ pc' = "check_hup"
    /\ rc' = {}
    /\ UNCHANGED <<exit_status, flags, latch, config, buf, sleep_interval, old_chance, ret,
                   spi, log, hist>>
    /\ UNCHANGED hist2

\* if (rc & WL_POSTMASTER_DEATH) proc_exit(1)
\* This is the only read of rc: past it the value is dead until the
\* "int rc = 0" of the next iteration, and the model drops it here
LoopCheckDeath ==
    /\ pc = "check_death"
    /\ IF "WL_POSTMASTER_DEATH" \in rc
          THEN pc' = "exited" /\ exit_status' = 1 /\ UNCHANGED rc
          ELSE pc' = "check_hup" /\ rc' = {} /\ UNCHANGED exit_status
    /\ UNCHANGED <<flags, latch, config, buf, sleep_interval, old_chance, ret, spi, log, hist>>
    /\ UNCHANGED hist2

\* the loop that reloads only when no SIGTERM is waiting
LoopCheckHupTermFirst ==
    /\ pc = "check_hup"
    /\ IF got_sighup /\ ~got_sigterm
          THEN pc' = "reload"
          ELSE pc' = "check_term"
    /\ UNCHANGED <<exit_status, flags, latch, config, buf, locals, spi, log, hist>>
    /\ UNCHANGED hist2

\* if (got_sighup)
LoopCheckHup ==
    /\ pc = "check_hup"
    /\ IF got_sighup
          THEN pc' = "reload"
          ELSE pc' = "check_term"
    /\ UNCHANGED <<exit_status, flags, latch, config, buf, locals, spi, log, hist>>
    /\ UNCHANGED hist2

\* old_chance = chance; ProcessConfigFile(PGC_SIGHUP)
ProcessConfigFile ==
    /\ pc = "reload"
    /\ old_chance' = chance
    /\ \E c \in ChanceInputs : chance' = GucAssign(GucChance, chance, c)
    /\ \E i \in IntervalInputs : interval' = GucAssign(GucInterval, interval, i)
    /\ refreshes' = Sat(refreshes)
    /\ pc' = "hup_clear"
    /\ UNCHANGED <<exit_status, flags, latch, buf, rc, sleep_interval, ret, spi, log,
                   term_in_wait>>
    /\ hup_batch' = hup_delivered
    /\ hup_delivered' = 0
    /\ UNCHANGED hist2

\* the reload that leaves got_sighup set
LoopHupClearKeeps ==
    /\ pc = "hup_clear"
    /\ pc' = "hup_log"
    /\ UNCHANGED <<exit_status, flags, latch, config, buf, locals, spi, log, hist>>
    /\ UNCHANGED hist2

\* got_sighup = false
LoopHupClear ==
    /\ pc = "hup_clear"
    /\ got_sighup' = FALSE
    /\ pc' = "hup_log"
    /\ UNCHANGED <<exit_status, got_sigterm, latch, config, buf, locals, spi, log, hist>>
    /\ UNCHANGED hist2

\* the reload that never rebuilds the query
LoopHupLogNoRebuild ==
    /\ pc = "hup_log"
    /\ log' = log \o <<SighupLine>>
    /\ old_chance' = 0
    /\ pc' = "check_term"
    /\ UNCHANGED <<exit_status, flags, latch, config, buf, rc, sleep_interval, ret, spi, hist>>
    /\ UNCHANGED hist2

\* the reload that rebuilds the query whatever old_chance is
LoopHupLogAlwaysRebuild ==
    /\ pc = "hup_log"
    /\ buf' = BuildQuery(InitStringInfo, chance)
    /\ log' = log \o <<SighupLine, KillQueryLine(chance)>>
    /\ old_chance' = 0
    /\ pc' = "check_term"
    /\ UNCHANGED <<exit_status, flags, latch, config, rc, sleep_interval, ret, spi, hist>>
    /\ UNCHANGED hist2

\* ereport(LOG, "processed SIGHUP"), then the rebuild of the query if
\* old_chance != chance; old_chance goes out of scope with the block
LoopHupLog ==
    /\ pc = "hup_log"
    /\ IF old_chance # chance
          THEN /\ buf' = BuildQuery(InitStringInfo, chance)
               /\ log' = log \o <<SighupLine, KillQueryLine(chance)>>
          ELSE /\ buf' = buf
               /\ log' = log \o <<SighupLine>>
    /\ old_chance' = 0
    /\ pc' = "check_term"
    /\ UNCHANGED <<exit_status, flags, latch, config, rc, sleep_interval, ret, spi, hist>>
    /\ UNCHANGED hist2

\* the test of got_sigterm that clears the flag and goes on
LoopCheckTermClears ==
    /\ pc = "check_term"
    /\ IF got_sigterm
          THEN got_sigterm' = FALSE /\ log' = log \o <<SigtermLine>>
          ELSE UNCHANGED <<got_sigterm, log>>
    /\ pc' = "check_interval"
    /\ hup_batch' = 0
    /\ refreshes' = 0
    /\ UNCHANGED <<exit_status, got_sighup, latch, config, buf, locals, spi,
                   term_in_wait, hup_delivered>>
    /\ UNCHANGED hist2

\* the loop that tests got_sigterm in its condition only
LoopCheckTermSkipped ==
    /\ pc = "check_term"
    /\ pc' = "check_interval"
    /\ hup_batch' = 0
    /\ refreshes' = 0
    /\ UNCHANGED <<exit_status, flags, latch, config, buf, locals, spi, log,
                   term_in_wait, hup_delivered>>
    /\ UNCHANGED hist2

\* if (got_sigterm) { ereport(LOG, "processed SIGTERM"); proc_exit(0); }
\* This ends the processing of signals of the iteration, of which
\* hup_batch and refreshes are the record
LoopCheckTerm ==
    /\ pc = "check_term"
    /\ IF got_sigterm
          THEN /\ log' = log \o <<SigtermLine>>
               /\ pc' = "exited"
               /\ exit_status' = 0
               /\ UNCHANGED <<hup_batch, refreshes>>
          ELSE /\ pc' = "check_interval"
               /\ hup_batch' = 0
               /\ refreshes' = 0
               /\ UNCHANGED <<log, exit_status>>
    /\ UNCHANGED <<flags, latch, config, buf, locals, spi, term_in_wait, hup_delivered>>
    /\ UNCHANGED hist2

\* the test of a disabled lookup made on the interval the iteration began with
LoopCheckIntervalStale ==
    /\ pc = "check_interval"
    /\ IF sleep_interval = FallbackSleep
          THEN pc' = "loop" /\ log' = log \o <<NothingLine>>
          ELSE pc' = "begin" /\ UNCHANGED log
    /\ UNCHANGED <<exit_status, flags, latch, config, buf, locals, spi, hist>>
    /\ UNCHANGED hist2

\* the loop without the test of a disabled lookup
LoopCheckIntervalNoSkip ==
    /\ pc = "check_interval"
    /\ pc' = "begin"
    /\ UNCHANGED <<exit_status, flags, latch, config, buf, locals, spi, log, hist>>
    /\ UNCHANGED hist2

\* if (0 == interval) { elog(LOG, "Nothing to do, sleep zzzzZZZZ"); continue; }
LoopCheckInterval ==
    /\ pc = "check_interval"
    /\ IF 0 = interval
          THEN pc' = "loop" /\ log' = log \o <<NothingLine>>
          ELSE pc' = "begin" /\ UNCHANGED log
    /\ UNCHANGED <<exit_status, flags, latch, config, buf, locals, spi, hist>>
    /\ UNCHANGED hist2

\* StartTransactionCommand(); SPI_connect(); PushActiveSnapshot(...)
StartTransaction ==
    /\ pc = "begin"
    /\ xact_open' = xact_open + 1
    /\ pc' = "execute"
    /\ UNCHANGED <<exit_status, flags, latch, config, buf, locals, tuptable, xact_end,
                   scanned, terminated, log, hist>>
    /\ term_scans' = (IF got_sigterm THEN Sat(term_scans) ELSE term_scans)
    /\ UNCHANGED wake_both

\* ret = SPI_execute(buf.data, false, 0): the statement of the buffer is
\* evaluated over pg_stat_activity, pg_terminate_backend(pid) is called on
\* every row that passes the WHERE clause and reports its outcome as data
SPIExecute ==
    /\ pc = "execute"
    /\ \E cs \in Activity :
          /\ scanned' = Candidates(cs)
          /\ \/ /\ ret' = "SPI_OK_SELECT"
                /\ \E S \in Selections(cs, Head(buf)) :
                      \E st \in [S -> BOOLEAN] :
                         /\ tuptable' = Rows(S, st)
                         /\ terminated' = S
             \/ /\ ret' = "SPI_ERROR"
                /\ tuptable' = <<>>
                /\ terminated' = {}
    /\ pc' = "check_ret"
    /\ UNCHANGED <<exit_status, flags, latch, config, buf, rc, sleep_interval, old_chance,
                   xact_open, xact_end, log, hist>>
    /\ UNCHANGED hist2

\* the loop that goes on after a failed query
LoopCheckRetIgnored ==
    /\ pc = "check_ret"
    /\ log' = log \o LogRows(tuptable)
    /\ pc' = "commit"
    /\ UNCHANGED <<exit_status, flags, latch, config, buf, locals, spi, hist>>
    /\ UNCHANGED hist2

\* the loop that logs only the rows whose termination succeeded
LoopCheckRetLogsSuccess ==
    /\ pc = "check_ret"
    /\ IF ret # "SPI_OK_SELECT"
          THEN /\ log' = log \o <<FatalLine>>
               /\ xact_open' = xact_open - 1
               /\ xact_end' = "abort"
               /\ pc' = "exited"
               /\ exit_status' = 1
          ELSE /\ log' = log \o LogRows(SelectSeq(tuptable, LAMBDA r : r.status))
               /\ pc' = "commit"
               /\ UNCHANGED <<xact_open, xact_end, exit_status>>
    /\ UNCHANGED <<flags, latch, config, buf, locals, tuptable, scanned, terminated, hist>>
    /\ UNCHANGED hist2

\* the loop that leaves a pass as soon as got_sigterm is set
LoopCheckRetInterrupted ==
    /\ pc = "check_ret"
    /\ IF got_sigterm
          THEN /\ log' = log \o <<SigtermLine>>
               /\ xact_open' = xact_open - 1
               /\ xact_end' = "abort"
               /\ pc' = "exited"
               /\ exit_status' = 0
          ELSE IF ret # "SPI_OK_SELECT"
          THEN /\ log' = log \o <<FatalLine>>
               /\ xact_open' = xact_open - 1
               /\ xact_end' = "abort"
               /\ pc' = "exited"
               /\ exit_status' = 1
          ELSE /\ log' = log \o LogRows(tuptable)
               /\ pc' = "commit"
               /\ UNCHANGED <<xact_open, xact_end, exit_status>>
    /\ UNCHANGED <<flags, latch, config, buf, locals, tuptable, scanned, terminated, hist>>
    /\ UNCHANGED hist2

\* if (ret != SPI_OK_SELECT) elog(FATAL, ...): the worker exits with
\* status 1 and its transaction is aborted; otherwise
\* for (i = 0; i < SPI_processed; i++) elog(LOG, "Rage terminated connection ...")
LoopCheckRet ==
    /\ pc = "check_ret"
    /\ IF ret # "SPI_OK_SELECT"
          THEN /\ log' = log \o <<FatalLine>>
               /\ xact_open' = xact_open - 1
               /\ xact_end' = "abort"
               /\ pc' = "exited"
               /\ exit_status' = 1
          ELSE /\ log' = log \o LogRows(tuptable)
               /\ pc' = "commit"
               /\ UNCHANGED <<xact_open, xact_end, exit_status>>
    /\ UNCHANGED <<flags, latch, config, buf, locals, tuptable, scanned, terminated, hist>>
    /\ UNCHANGED hist2

\* the end of a pass without CommitTransactionCommand
CommitTransactionMissing ==
    /\ pc = "commit"
    /\ pc' = "loop"
    /\ UNCHANGED <<exit_status, flags, latch, config, buf, locals, spi, log, hist>>
    /\ UNCHANGED hist2

\* SPI_finish(); PopActiveSnapshot(); CommitTransactionCommand()
CommitTransaction ==
    /\ pc = "commit"
    /\ xact_open' = xact_open - 1
    /\ xact_end' = "commit"
    /\ pc' = "loop"
    /\ UNCHANGED <<exit_status, flags, latch, config, buf, locals, tuptable,
                   scanned, terminated, log, hist>>
    /\ UNCHANGED hist2

Next ==
    \/ MainStart \/ LoopCond \/ WaitLatch \/ ResetLatch \/ LoopCheckDeath
    \/ LoopCheckHup \/ ProcessConfigFile \/ LoopHupClear \/ LoopHupLog
    \/ LoopCheckTerm \/ LoopCheckInterval
    \/ StartTransaction \/ SPIExecute \/ LoopCheckRet \/ CommitTransaction
    \/ Sigterm \/ Sighup

Spec == Init /\ [][Next]_vars

\* the steps of the worker, which runs whenever it can: WaitLatch returns,
\* and ProcessConfigFile and the scan complete
Worker ==
    \/ MainStart \/ LoopCond \/ WaitLatch \/ ResetLatch \/ LoopCheckDeath
    \/ LoopCheckHup \/ ProcessConfigFile \/ LoopHupClear \/ LoopHupLog
    \/ LoopCheckTerm \/ LoopCheckInterval
    \/ StartTransaction \/ SPIExecute \/ LoopCheckRet \/ CommitTransaction

FairSpec == Init /\ [][Next]_vars /\ WF_vars(Worker)

TypeOK ==
    /\ pc \in {"start", "loop", "wait", "reset", "check_death", "check_hup", "reload",
               "hup_clear", "hup_log", "check_term", "check_interval", "begin",
               "execute", "check_ret", "commit", "exited"}
    /\ exit_status \in {-1, 0, 1}
    /\ got_sigterm \in BOOLEAN /\ got_sighup \in BOOLEAN /\ latch \in BOOLEAN
    /\ rc \subseteq WakeEvents
    /\ Len(buf) <= 1
    /\ xact_open \in 0..1

\* ------------------------------------------------------------- properties
Death == "WL_POSTMASTER_DEATH" \in rc
SignalPcs == {"wait", "reset", "check_death", "check_hup", "reload", "hup_clear",
              "hup_log", "check_term"}

\* C1 (as stated): a SIGTERM delivered while the worker is in WaitLatch
\* makes it exit with status 0 in the iteration of that wait, no scan pass
\* starting or completing before the exit.
C1_TermInWaitExitsZero ==
    term_in_wait =>
        /\ pc \in SignalPcs \cup {"exited"}
        /\ pc = "exited" => exit_status = 0

\* C1 (amended): a SIGTERM delivered while the worker is in WaitLatch makes
\* it exit in the iteration of that wait, with status 1 if that wait
\* reported the death of the postmaster and status 0 otherwise, no scan pass
\* starting or completing before the exit.
C1_TermInWaitExits ==
    term_in_wait =>
        /\ pc \in SignalPcs \cup {"exited"}
        /\ xact_open = 0 /\ ret = "none" /\ terminated = {}
        /\ pc = "exited" => exit_status = (IF Death THEN 1 ELSE 0)

C1_Witness ==
    term_in_wait /\ pc = "exited" /\ exit_status = 0 /\ Count(log, SigtermLine) = 1

\* C2: while interval = 0 no scan pass runs (no transaction, no query, no
\* termination); a SIGHUP found by the loop is still applied and a SIGTERM
\* found by the loop still makes the worker exit with status 0.
C2_DisabledNoScan ==
    /\ [](interval = 0 =>
            /\ pc \notin ScanPcs \cup {"begin"}
            /\ xact_open = 0)
    /\ [][(interval = 0 /\ interval' = 0) =>
             UNCHANGED <<ret, tuptable, xact_open, xact_end, scanned, terminated>>]_vars
    /\ [][(interval = 0 /\ pc = "check_hup" /\ got_sighup /\ pc' # pc) =>
             pc' = "reload"]_vars
    /\ [][(pc = "reload" /\ pc' # pc) =>
             (pc' = "hup_clear" /\ refreshes' = refreshes + 1)]_vars
    /\ [][(interval = 0 /\ pc = "check_term" /\ got_sigterm /\ pc' # pc) =>
             (pc' = "exited" /\ exit_status' = 0)]_vars

C2_Witness ==
    /\ pc = "loop" /\ interval = 0 /\ sleep_interval = FallbackSleep
    /\ Count(log, SighupLine) = 1 /\ Count(log, NothingLine) = 1

\* C3: with chance = 100 a scan pass terminates and logs every connection
\* that has a client port, each exactly once, whatever the random draws.
C3_Chance100SelectsAll ==
    (chance = 100 /\ pc = "commit") =>
        /\ terminated = scanned
        /\ RagePids(log) = scanned
        /\ Cardinality(RageLines(log)) = Cardinality(scanned)

\* C4: with chance = 0 no scan pass selects a connection: no termination is
\* issued and no connection line is logged, whatever the random draws.
C4_ChanceZeroSelectsNone ==
    chance = 0 => (terminated = {} /\ tuptable = <<>> /\ RageLines(log) = {})

C4_Witness ==
    chance = 0 /\ pc = "commit" /\ ret = "SPI_OK_SELECT" /\ Cardinality(scanned) = MaxConn

\* C5: in every state chance is in [0,100] and interval is in [0,3600].
C5_ConfigInRange ==
    /\ chance >= 0 /\ chance <= 100
    /\ interval >= 0 /\ interval <= 3600

\* C6: whenever a scan pass executes its query, the query in the buffer was
\* built from the current chance.
C6_TemplateCurrent ==
    pc \in ScanPcs \cup {"begin"} => buf = <<chance>>

C6_Witness ==
    /\ pc = "execute" /\ Count(log, SighupLine) = 1
    /\ KillQueryLines(log) # {} /\ buf = <<chance>>

\* C7: a reload rebuilds the query iff chance after ProcessConfigFile differs
\* from chance before it; otherwise (only interval changed, or nothing) the
\* buffer is left as it is.  Nothing but a rebuild changes the buffer.
C7_RebuildIffChanceChanged ==
    /\ [][(pc = "reload" /\ pc' # pc) => (old_chance' = chance /\ buf' = buf)]_vars
    /\ [][(pc = "hup_log" /\ pc' # pc) =>
             /\ (old_chance # chance) <=> (KillQueryLines(log') # KillQueryLines(log))
             /\ (old_chance # chance) => buf' = <<chance>>
             /\ (old_chance = chance) => buf' = buf]_vars
    /\ [][pc \notin {"start", "hup_log"} => buf' = buf]_vars

C7_Witness ==
    /\ pc = "check_term" /\ refreshes = 1 /\ KillQueryLines(log) = {}
    /\ sleep_interval # FallbackSleep /\ interval # sleep_interval

\* C8: two or more SIGHUPs delivered before the loop reloads are answered by
\* one ProcessConfigFile and one SIGHUP log line, after which got_sighup is
\* false; a reload always answers at least one delivery.
C8_ReloadsCoalesce ==
    /\ pc \in {"hup_clear", "hup_log"} => hup_batch >= 1
    /\ (pc = "check_term" /\ hup_batch >= 2) =>
          /\ refreshes = 1
          /\ Count(log, SighupLine) = 1
          /\ hup_delivered = 0 => ~got_sighup

C8_Witness ==
    pc = "check_term" /\ hup_batch >= 2 /\ refreshes = 1 /\ ~got_sighup

\* C9: when WaitLatch reports the death of the postmaster the worker exits
\* with status 1 at once: nothing is reloaded, no flag is cleared, no scan
\* pass runs and nothing is logged, whatever flags are set.
C9_DeathExitsFirst ==
    /\ [][(Death /\ pc \in {"reset", "check_death"}) =>
             /\ UNCHANGED <<chance, interval, buf, log, refreshes, ret, tuptable,
                            xact_open, xact_end, scanned, terminated>>
             /\ got_sighup => got_sighup'
             /\ got_sigterm => got_sigterm'
             /\ (pc = "check_death" /\ pc' # pc) => (pc' = "exited" /\ exit_status' = 1)
             /\ (pc = "reset" /\ pc' # pc) => pc' = "check_death"]_vars
    /\ []((pc = "exited" /\ Death) =>
             /\ exit_status = 1
             /\ log = <<>> /\ refreshes = 0 /\ ret = "none" /\ terminated = {}
             /\ xact_open = 0)

C9_Witness ==
    pc = "exited" /\ exit_status = 1 /\ Death /\ got_sighup /\ got_sigterm

\* C10: every exit caused by a SIGTERM (status 0) is preceded by exactly one
\* SIGTERM log line.
C10_TermExitLogged ==
    (pc = "exited" /\ exit_status = 0) => Count(log, SigtermLine) = 1

\* C11: every fatal exit (death of the postmaster observed, or failure of
\* the scan query) writes a log record before the worker exits.
C11_FatalExitLogged ==
    [][(pc # "exited" /\ pc' = "exited" /\ exit_status' = 1) => Len(log') > Len(log)]_vars

\* C12: a scan query that does not return SPI_OK_SELECT stops the worker in
\* that pass: no connection line is logged, the transaction is aborted and
\* not committed, and the worker takes no further step.
C12_ScanFailureFatal ==
    /\ [][(pc = "check_ret" /\ ret # "SPI_OK_SELECT" /\ pc' # pc) =>
             /\ pc' = "exited" /\ exit_status' = 1
             /\ RageLines(log') = {}
             /\ xact_end' = "abort" /\ xact_open' = 0]_vars
    /\ [][pc # "exited"]_vars
    /\ []((pc = "exited" /\ ret = "SPI_ERROR") =>
             (exit_status = 1 /\ RageLines(log) = {} /\ xact_end = "abort"))

C12_Witness ==
    /\ pc = "exited" /\ ret = "SPI_ERROR" /\ exit_status = 1
    /\ Count(log, FatalLine) = 1 /\ scanned # {}

\* C13: in a successful pass the connections pg_terminate_backend was called
\* on are the connections logged, each with one line carrying its pid,
\* whatever status the termination reported, and the loop goes on.
C13_TerminatedAreLogged ==
    /\ [](pc = "commit" =>
            /\ RagePids(log) = terminated
            /\ Cardinality(RageLines(log)) = Cardinality(terminated)
            /\ \A i \in 1..Len(tuptable) : Count(log, RageLine(tuptable[i].pid)) = 1)
    /\ [][(pc = "check_ret" /\ ret = "SPI_OK_SELECT" /\ pc' # pc) => pc' = "commit"]_vars
    /\ [][(pc = "commit" /\ pc' # pc) => (pc' = "loop" /\ exit_status' = -1)]_vars

C13_Witness ==
    /\ pc = "commit"
    /\ \E i, j \in 1..Len(tuptable) : tuptable[i].status /\ ~tuptable[j].status
    /\ RagePids(log) = terminated

\* C14: when WaitLatch returns without the death of the postmaster while
\* both flags are set, the worker reloads first (one ProcessConfigFile, the
\* SIGHUP line, the query rebuilt if chance changed) and then exits with
\* status 0 without a scan pass.
C14_ReloadThenExit ==
    wake_both =>
        /\ pc \in (SignalPcs \ {"wait"}) \cup {"exited"}
        /\ ret = "none" /\ xact_open = 0 /\ terminated = {}
        /\ pc = "exited" =>
              /\ exit_status = 0
              /\ refreshes = 1
              /\ buf = <<chance>>
              /\ log \in {<<SighupLine, SigtermLine>>,
                          <<SighupLine, KillQueryLine(chance), SigtermLine>>}

C14_Witness ==
    /\ wake_both /\ pc = "exited" /\ exit_status = 0
    /\ log = <<SighupLine, KillQueryLine(chance), SigtermLine>>

\* C15: the test of a disabled lookup uses the interval the reload of the
\* same iteration produced: an iteration that reloaded ends without a scan
\* pass if interval is now 0 and with one committed scan pass otherwise, and
\* the next wait is given the new interval (the fallback if it is 0).
C15_DisabledCheckUsesReload ==
    /\ (pc = "loop" /\ Count(log, SighupLine) = 1) =>
          IF interval = 0
             THEN ret = "none" /\ Count(log, NothingLine) = 1
             ELSE ret = "SPI_OK_SELECT" /\ xact_end = "commit" /\ Count(log, NothingLine) = 0
    /\ pc = "wait" => sleep_interval = (IF interval = 0 THEN FallbackSleep ELSE interval)

C15_Witness ==
    /\ pc = "loop" /\ Count(log, SighupLine) = 1
    /\ sleep_interval = FallbackSleep /\ interval # 0 /\ ret = "SPI_OK_SELECT"

\* C16: a signal handler sets its own flag and the latch and nothing else:
\* it sets no other flag, clears none, and leaves chance, interval and the
\* query alone; a flag becomes false only by a step of the loop.
C16_HandlersOnlySetOwnFlag ==
    /\ [][pc' = pc =>
             /\ UNCHANGED <<chance, interval, buf, log, exit_status, locals, spi>>
             /\ latch'
             /\ \/ got_sigterm' /\ got_sighup' = got_sighup
                \/ got_sighup' /\ got_sigterm' = got_sigterm]_vars
    /\ [][(got_sighup /\ ~got_sighup') => pc' # pc]_vars
    /\ [][(got_sigterm /\ ~got_sigterm') => pc' # pc]_vars

C16_Witness ==
    pc = "wait" /\ got_sighup /\ ~got_sigterm /\ latch /\ hup_delivered = 1

\* C17: every scan pass runs in a transaction of its own, begun when the
\* pass begins and committed when it ends: no transaction is open while the
\* worker waits or handles flags, and never more than one.
C17_OneTransactionPerPass ==
    /\ xact_open \in {0, 1}
    /\ (pc \in ScanPcs) <=> (xact_open = 1)
    /\ (pc = "loop" /\ ret = "SPI_OK_SELECT") => xact_end = "commit"

C17_Witness ==
    pc = "loop" /\ ret = "SPI_OK_SELECT" /\ xact_end = "commit" /\ xact_open = 0

\* C18: a SIGTERM never aborts a scan pass in flight (the pass logs its rows
\* and commits) and at most one scan pass starts after it was delivered.
C18_TermNeverAbortsPass ==
    /\ [](term_scans <= 1)
    /\ [][(got_sigterm /\ pc = "execute" /\ pc' # pc) => pc' = "check_ret"]_vars
    /\ [][(got_sigterm /\ pc = "check_ret" /\ ret = "SPI_OK_SELECT" /\ pc' # pc) =>
             (pc' = "commit" /\ log' = log \o LogRows(tuptable))]_vars
    /\ [][(got_sigterm /\ pc = "commit" /\ pc' # pc) =>
             (pc' = "loop" /\ xact_end' = "commit" /\ xact_open' = 0)]_vars
    /\ []((pc = "exited" /\ exit_status = 0 /\ ret = "SPI_OK_SELECT") =>
             (xact_end = "commit" /\ xact_open = 0 /\ RagePids(log) = terminated))

C18_Witness ==
    /\ pc = "exited" /\ exit_status = 0 /\ term_scans = 1
    /\ xact_end = "commit" /\ terminated # {} /\ RagePids(log) = terminated

\* C19: once a SIGTERM was delivered the worker eventually exits, however
\* many SIGHUPs keep arriving, when the worker keeps taking its steps.
C19_TermEventuallyExits ==
    got_sigterm ~> (pc = "exited")

C19_Witness ==
    pc = "exited" /\ exit_status = 0 /\ got_sigterm /\ got_sighup /\ hup_delivered >= 2

\* C20: no SIGHUP is lost: after every SIGHUP delivered to the running
\* worker a ProcessConfigFile eventually starts, unless the worker exits.
C20_NoReloadLost ==
    (hup_delivered > 0) ~> (hup_delivered = 0 \/ pc = "exited")

====
